---- MODULE Spec2Model ----
(***************************************************************************)
(* Model of the copley tapped-density driver: the report decoder           *)
(* (TapDensity._parse), the TCP client (TcpClient) with its reconnect and  *)
(* timeout counting, the query lock of TapDensity.query, the driver's      *)
(* scoped lifetime, the command-line reset path and the offline mock.      *)
(***************************************************************************)
EXTENDS Integers, Sequences, FiniteSets, TLC

\* ------------------------------------------------------------------------
\* Report decoder: driver.py, TapDensity._parse
\* ------------------------------------------------------------------------

\* The eleven label substrings, in the order of the if/elif chain.
Labels == << "Serial number", "Calculation type", "Set Speed", "Total Taps",
             "Sample Weight, W", "Initial Volume", "Final Volume",
             "Bulk Density", "Tapped Density (g/mL)", "Hausner Ratio",
             "Compress. Index" >>

\* The local variable each branch assigns, which is also the order in which
\* the returned dict reads them.
ParseVars == << "sn", "calc_type", "set_speed", "total_taps", "sample_weight",
                "init_volume", "final_volume", "bulk_density",
                "tapped_density", "hausner_ratio", "compress_index" >>

\* The keys of the returned dict, in the same order.
RecordKeys == << "serial_number", "calc_type", "set_speed", "total_taps",
                 "sample_weight", "init_volume", "final_volume",
                 "bulk_density", "tapped_density", "hausner_ratio",
                 "compress_index" >>

NumLabels == 11

\* The conversion each branch applies to split_line[1].strip().
Conversion == << "int", "str", "int_or_str", "int", "float", "float", "float",
                 "float", "float", "float", "float" >>

\* Texts that int() accepts, with their values.
IntTexts == {"12345", "1250", "300"}

IntOf(s) == CASE s = "12345" -> 12345
              [] s = "1250" -> 1250
              [] s = "300" -> 300
              [] OTHER -> 0

\* Texts that float() accepts: every integer text and the decimal ones.
FloatTexts == IntTexts \cup {"2.77", "170.0", "155.0", "0.016", "0.018",
                             "1.097", "8.82"}

\* str.strip(): the field texts of the model carry at most one leading blank.
Strip(s) == CASE s = " 12345" -> "12345"
              [] s = " 1250" -> "1250"
              [] s = " 300" -> "300"
              [] s = " 2.77" -> "2.77"
              [] s = " 170.0" -> "170.0"
              [] s = " 155.0" -> "155.0"
              [] s = " 0.016" -> "0.016"
              [] s = " 0.018" -> "0.018"
              [] s = " 1.097" -> "1.097"
              [] s = " 8.82" -> "8.82"
              [] s = " Fixed weight" -> "Fixed weight"
              [] s = " n/a" -> "n/a"
              [] s = " " -> ""
              [] OTHER -> s

\* Python values held by the locals of _parse.
IntV(n) == [type |-> "int", num |-> n, text |-> ""]
FloatV(s) == [type |-> "float", num |-> 0, text |-> s]
StrV(s) == [type |-> "str", num |-> 0, text |-> s]
Unbound == [type |-> "unbound", num |-> 0, text |-> ""]

\* A line of the response: the labels that occur in it as substrings, and
\* the pieces line.strip().split(':') cuts it into.
Line(has, fields) == [has |-> has, fields |-> fields]

\* The response handed to _parse: None, or the list of lines.
NoneResponse == [none |-> TRUE, lines |-> << >>]
Lines(ls) == [none |-> FALSE, lines |-> ls]

\* What a call produces: a returned value or a raised exception.
Returned(shape, rec, msg) ==
    [kind |-> "return", shape |-> shape, rec |-> rec, msg |-> msg, exc |-> ""]
Raised(exc) ==
    [kind |-> "raise", shape |-> "", rec |-> << >>, msg |-> "", exc |-> exc]
NoOutcome ==
    [kind |-> "none", shape |-> "", rec |-> << >>, msg |-> "", exc |-> ""]

\* {'on': False}
OnFalse == Returned("on_false", << >>, "")

\* The first branch of the if/elif chain whose label occurs in the line
\* (0 when none does).
RECURSIVE FirstBranch(_, _)
FirstBranch(line, k) ==
    IF k > NumLabels THEN 0
    ELSE IF k \in line.has THEN k
    ELSE FirstBranch(line, k + 1)

\* int(text) / float(text) / the try-int-else-text of "Set Speed": the value,
\* or the exception raised.
Convert(conv, text) ==
    CASE conv = "int" ->
            IF text \in IntTexts THEN [exc |-> "", val |-> IntV(IntOf(text))]
            ELSE [exc |-> "ValueError", val |-> Unbound]
      [] conv = "float" ->
            IF text \in FloatTexts THEN [exc |-> "", val |-> FloatV(text)]
            ELSE [exc |-> "ValueError", val |-> Unbound]
      [] conv = "int_or_str" ->
            IF text \in IntTexts THEN [exc |-> "", val |-> IntV(IntOf(text))]
            ELSE [exc |-> "", val |-> StrV(text)]
      [] OTHER -> [exc |-> "", val |-> StrV(text)]

\* The loop body reading split_line[0], the label, where the value is meant.
ScanLineWrongField(env, line) ==
    LET k == FirstBranch(line, 1) IN
    IF k = 0 THEN [exc |-> "", env |-> env]
    ELSE LET c == Convert(Conversion[k], Strip(line.fields[1])) IN
         IF c.exc # "" THEN [exc |-> c.exc, env |-> env]
         ELSE [exc |-> "", env |-> [env EXCEPT ![k] = c.val]]

\* One pass of the loop body over a line: the locals afterwards, or the
\* exception that leaves the loop (IndexError when split_line has no [1]).
ScanLine(env, line) ==
    LET k == FirstBranch(line, 1) IN
    IF k = 0 THEN [exc |-> "", env |-> env]
    ELSE IF Len(line.fields) < 2 THEN [exc |-> "IndexError", env |-> env]
    ELSE LET c == Convert(Conversion[k], Strip(line.fields[2])) IN
         IF c.exc # "" THEN [exc |-> c.exc, env |-> env]
         ELSE [exc |-> "", env |-> [env EXCEPT ![k] = c.val]]

\* The for loop over the lines, from line i on.
RECURSIVE ScanFrom(_, _, _)
ScanFrom(env, ls, i) ==
    IF i > Len(ls) THEN [exc |-> "", env |-> env]
    ELSE LET r == ScanLine(env, ls[i]) IN
         IF r.exc # "" THEN r ELSE ScanFrom(r.env, ls, i + 1)

\* The first local, in the order the dict display reads them, that was never
\* assigned (0 when all were).
RECURSIVE FirstUnbound(_, _)
FirstUnbound(env, k) ==
    IF k > NumLabels THEN 0
    ELSE IF env[k] = Unbound THEN k
    ELSE FirstUnbound(env, k + 1)

\* _parse without the test for None: the missing response is scanned as a
\* response without lines.
_parseNoNoneCheck(resp) ==
    LET s == ScanFrom([k \in 1..NumLabels |-> Unbound], resp.lines, 1) IN
    IF s.exc # "" THEN Raised(s.exc)
    ELSE LET u == FirstUnbound(s.env, 1) IN
         IF u # 0 THEN Returned("set", << >>, ParseVars[u])
         ELSE Returned("record", s.env, "")

\* TapDensity._parse.  Reading an unassigned local raises UnboundLocalError
\* inside the try, and the handler returns the one-element set
\* {'Could not parse: <message naming the local>'}.
_parse(resp) ==
    IF resp.none THEN OnFalse
    ELSE LET s == ScanFrom([k \in 1..NumLabels |-> Unbound], resp.lines, 1) IN
         IF s.exc # "" THEN Raised(s.exc)
         ELSE LET u == FirstUnbound(s.env, 1) IN
              IF u # 0 THEN Returned("set", << >>, ParseVars[u])
              ELSE Returned("record", s.env, "")

\* ------------------------------------------------------------------------
\* Responses given to the decoder
\* ------------------------------------------------------------------------

\* Number of lines TcpClient._handle_communication asks _readlines for.
NumLines == 27

\* The values of the eleven label lines of a report as the device prints it
\* (the values of the canned record of mock.py).
ReportValues == << " 12345", " Fixed weight", " 300", " 1250", " 2.77",
                   " 170.0", " 155.0", " 0.016", " 0.018", " 1.097",
                   " 8.82" >>

\* First line of the block of label lines in the printed report.
FirstLabelLine == 9

\* A 27-line report: header lines without a colon, the eleven label lines,
\* footer lines with a colon but no label of interest.
GoodReport ==
    [i \in 1..NumLines |->
        IF i < FirstLabelLine THEN Line({}, << "header" >>)
        ELSE IF i < FirstLabelLine + NumLabels
             THEN Line({i - FirstLabelLine + 1},
                       << Labels[i - FirstLabelLine + 1],
                          ReportValues[i - FirstLabelLine + 1] >>)
        ELSE Line({}, << "footer", " 01/01/2023" >>)]

\* Bound on the number of changes made to the report before it is decoded.
MaxEdits == 2

\* Value texts a changed line may carry.
EditValues == {" 12345", " 2.77", " n/a"}

VARIABLES
    response,      \* the response handed to _parse
    edits,         \* number of changes made to the printed report
    parseOut,      \* what _parse produced for response (NoOutcome: not yet run)
    pyImpl,        \* asyncio.wait_for of the interpreter: "task" or "timeout"
    scope,         \* "constructed", "entered" or "exited" (async with)
    lockInit,      \* TapDensity.lock is no longer None
    lock,          \* holder of TapDensity.lock, 0 when free
    waiters,       \* callers suspended in lock.acquire(), in arrival order
    calls,         \* per caller: position and locals of its get_report call
    orphan,        \* lines read by a read loop left running, -1 when none
    open,          \* Client.open
    timeouts,      \* Client.timeouts
    reconnecting,  \* Client.reconnecting
    connLogs,      \* connect-failure errors logged since the last successful connect
    conn,          \* the socket of Client.connection
    buf,           \* complete lines waiting in the stream reader
    owed,          \* lines the device has still to send for commands written
    failStreak,    \* consecutive calls that ended without a response
    ret,           \* how the call that ended last ended
    address,       \* address given to the mock driver
    mockHw,        \* the mock driver: "none", "built" or "failed"
    mockOut,       \* what the mock driver's constructor or get_report produced
    driver         \* the driver built for address and its first query

parseVars == << response, edits, parseOut >>
tcpVars == << pyImpl, scope, lockInit, lock, waiters, calls, orphan, open,
              timeouts, reconnecting, connLogs, conn, buf, owed, failStreak, ret >>
mockVars == << address, mockHw, mockOut, driver >>
vars == << response, edits, parseOut, pyImpl, scope, lockInit, lock, waiters,
           calls, orphan, open, timeouts, reconnecting, connLogs, conn, buf, owed,
           failStreak, ret, address, mockHw, mockOut, driver >>

\* ------------------------------------------------------------------------
\* TCP client and query lock: util.py (Client, TcpClient), driver.py (query)
\* ------------------------------------------------------------------------

\* Client.max_timeouts
max_timeouts == 10

\* Concurrent callers of get_report on the one driver instance.
NumCallers == 2
Callers == 1..NumCallers

\* Lines the device sends at a time when it does not send the whole rest of
\* a reply.
Chunk == 9

\* Cap on Client.timeouts, which the code lets grow without limit.
TimeoutsCap == 12

\* Cap on the lines the device owes for commands written and not answered.
MaxOwed == 54

Min(a, b) == IF a < b THEN a ELSE b

\* Cap on the count of connect-failure errors logged in one episode.
LogsCap == 2

\* The error is logged at every failed connect.
LogsConnectErrorAlways(isReconnecting) == TRUE

\* TcpClient._handle_connection, except branch: "if not self.reconnecting:
\* logger.error(...)".
LogsConnectError(isReconnecting) == ~isReconnecting

\* The locals of one get_report call between two awaits.
IdleCall == [pc |-> "idle", got |-> 0, timedOut |-> FALSE,
             cancelReq |-> FALSE, stale |-> FALSE, connects |-> 0]

\* How a call ended: the operation, what query gave ("none",
\* "lines", or "unset" when it raised), the outcome, the number of times the
\* command was written, whether the read timeout had fired and whether lines
\* were taken that were in the stream before the command was written, and
\* the number of connect attempts the call made.
Ended(op, resp, out, wrote, c) ==
    [op |-> op, resp |-> resp, out |-> out, wrote |-> wrote,
     timedOut |-> c.timedOut, stale |-> c.stale, connects |-> c.connects]

NothingEnded == Ended("none", "unset", NoOutcome, 0, IdleCall)

\* TapDensity.get_report once query has returned resp.
get_report(resp) == _parse(resp)

\* A call is inside Client._write_and_read.
InExchange(t) == calls[t].pc \in {"connecting", "reading"}

\* The lock taken without looking at its holder.
CanAcquireBarging(t) == TRUE

\* asyncio.Lock.acquire without suspending: the lock is free and nobody
\* queues for it (driver.py: async with self.lock).
CanAcquire(t) == lock = 0 /\ waiters = << >>

\* Some other read loop is suspended in readuntil on the stream: a leftover
\* loop, or (never under the lock) another caller's.
OtherReaderWaiting(t, orph) ==
    \/ orph # -1
    \/ \E s \in Callers \ {t} :
          calls[s].pc = "reading" /\ calls[s].got < NumLines

\* TcpClient.close
close(isOpen, c) ==
    [open |-> FALSE, conn |-> IF isOpen THEN "closed" ELSE c]

\* The end of a call: the lock is released on leaving "async with", the
\* outcome goes to the caller.
Finish(t, resp, out, wrote) ==
    /\ calls' = [calls EXCEPT ![t] = IdleCall]
    /\ lock' = 0
    /\ ret' = Ended("get_report", resp, out, wrote, calls[t])

\* The streak of calls without a response after a call ended with `out`.
Streak(out) ==
    IF out = OnFalse THEN Min(failStreak + 1, max_timeouts + 1)
    ELSE IF out.kind = "return" THEN 0
    ELSE failStreak

\* TapDensity.query from the point where the lock is taken, up to the first
\* await that suspends: Client._write_and_read, _handle_connection and, when
\* the link is open, _handle_communication with _write and the start of
\* _readlines.  isOpen, c, b, o are Client.open, the socket, the buffered
\* lines and the owed lines at that point.
Begin(t, isOpen, c, b, o, orph) ==
    IF ~isOpen
    THEN /\ calls' = [calls EXCEPT ![t] = [IdleCall EXCEPT !.pc = "connecting",
                                                           !.connects = 1]]
         /\ lock' = t
         /\ buf' = b
         /\ owed' = o
         /\ UNCHANGED << ret, failStreak >>
    ELSE LET o2 == IF c = "up" THEN o + NumLines ELSE o
             n == IF c \in {"up", "eof"} THEN Min(b, NumLines) ELSE 0
         IN  /\ owed' = o2
             /\ buf' = b - n
             /\ IF c = "up" /\ n < NumLines /\ OtherReaderWaiting(t, orph)
                THEN \* readuntil: RuntimeError, another coroutine is waiting
                     /\ calls' = [calls EXCEPT ![t] = IdleCall]
                     /\ lock' = 0
                     /\ ret' = Ended("get_report", "unset",
                                     Raised("RuntimeError"), 1,
                                     [IdleCall EXCEPT
                                         !.stale = n > 0,
                                         !.connects = calls[t].connects])
                     /\ UNCHANGED failStreak
                ELSE /\ calls' = [calls EXCEPT ![t] =
                                    [IdleCall EXCEPT !.pc = "reading",
                                                     !.got = n,
                                                     !.stale = n > 0,
                                                     !.connects =
                                                         calls[t].connects]]
                     /\ lock' = t
                     /\ UNCHANGED << ret, failStreak >>

\* TapDensity.__aenter__
Enter ==
    /\ scope = "constructed"
    /\ scope' = "entered"
    /\ UNCHANGED << parseVars, mockVars, pyImpl, lockInit, lock, waiters,
                    calls, orphan, open, timeouts, reconnecting, connLogs, conn, buf,
                    owed, failStreak, ret >>

\* TapDensity.__aexit__, when the body of the async with has finished.
Exit ==
    /\ scope = "entered"
    /\ \A t \in Callers : calls[t].pc = "idle"
    /\ scope' = "exited"
    /\ UNCHANGED << parseVars, mockVars, pyImpl, lockInit, lock, waiters,
                    calls, orphan, open, timeouts, reconnecting, connLogs, conn, buf,
                    owed, failStreak, ret >>

\* get_report is called: query creates the lock on first use, then takes it
\* or queues for it.
Call(t) ==
    /\ scope = "entered"
    /\ calls[t].pc = "idle"
    /\ owed + NumLines <= MaxOwed
    /\ lockInit' = TRUE
    /\ IF CanAcquire(t)
       THEN /\ Begin(t, open, conn, buf, owed, orphan)
            /\ UNCHANGED waiters
       ELSE /\ calls' = [calls EXCEPT ![t] = [IdleCall EXCEPT !.pc = "waitLock"]]
            /\ waiters' = Append(waiters, t)
            /\ UNCHANGED << lock, buf, owed, ret, failStreak >>
    /\ UNCHANGED << parseVars, mockVars, pyImpl, scope, orphan, open, timeouts,
                    reconnecting, connLogs, conn >>

\* The first waiter is woken once the lock has been released.
Acquire(t) ==
    /\ calls[t].pc = "waitLock"
    /\ lock = 0
    /\ waiters # << >>
    /\ Head(waiters) = t
    /\ owed + NumLines <= MaxOwed
    /\ waiters' = Tail(waiters)
    /\ Begin(t, open, conn, buf, owed, orphan)
    /\ UNCHANGED << parseVars, mockVars, pyImpl, scope, lockInit, orphan, open,
                    timeouts, reconnecting, connLogs, conn >>

\* TcpClient._handle_connection, asyncio.open_connection succeeded within the
\* 0.75 s: _connect stores the new reader and writer and sets open, the flag
\* reconnecting is cleared, and _write_and_read goes on to the exchange.
ConnectOk(t) ==
    /\ calls[t].pc = "connecting"
    /\ open' = TRUE
    /\ reconnecting' = FALSE
    /\ connLogs' = 0
    /\ conn' = "up"
    /\ Begin(t, TRUE, "up", 0, 0, orphan)
    /\ UNCHANGED << parseVars, mockVars, pyImpl, scope, lockInit, waiters,
                    orphan, timeouts >>

\* The connect is tried again inside the call instead of giving up.
ConnectFailRetry(t) ==
    /\ calls[t].pc = "connecting"
    /\ calls[t].connects = 1
    /\ reconnecting' = TRUE
    /\ connLogs' = IF LogsConnectError(reconnecting)
                   THEN Min(connLogs + 1, LogsCap) ELSE connLogs
    /\ calls' = [calls EXCEPT ![t].connects = @ + 1]
    /\ UNCHANGED << parseVars, mockVars, pyImpl, scope, lockInit, lock,
                    waiters, orphan, open, timeouts, conn, buf, owed,
                    failStreak, ret >>

\* TcpClient._handle_connection, the connect timed out or was refused: the
\* error is logged unless reconnecting is set already, reconnecting is set,
\* open stays false, _write_and_read returns None and get_report decodes
\* None.
ConnectFail(t) ==
    /\ calls[t].pc = "connecting"
    /\ reconnecting' = TRUE
    /\ connLogs' = IF LogsConnectError(reconnecting)
                   THEN Min(connLogs + 1, LogsCap) ELSE connLogs
    /\ Finish(t, "none", get_report(NoneResponse), 0)
    /\ failStreak' = Streak(get_report(NoneResponse))
    /\ UNCHANGED << parseVars, mockVars, pyImpl, scope, lockInit, waiters,
                    orphan, open, timeouts, conn, buf, owed >>

\* The device sends k lines of the reply it is at.  A read loop suspended in
\* readuntil takes them as they arrive (the leftover loop first, it is the
\* one waiting); lines nobody waits for stay in the stream reader.
Deliver(k) ==
    /\ conn = "up"
    /\ owed > 0
    /\ k \in {Min(Chunk, ((owed - 1) % NumLines) + 1), ((owed - 1) % NumLines) + 1}
    /\ owed' = owed - k
    /\ IF orphan # -1
       THEN LET take == Min(k, NumLines - orphan) IN
            /\ orphan' = IF orphan + take = NumLines THEN -1 ELSE orphan + take
            /\ buf' = buf + (k - take)
            /\ UNCHANGED calls
       ELSE IF \E t \in Callers : calls[t].pc = "reading" /\ calls[t].got < NumLines
       THEN LET t == CHOOSE u \in Callers :
                        calls[u].pc = "reading" /\ calls[u].got < NumLines
                take == Min(k, NumLines - calls[t].got)
            IN  /\ calls' = [calls EXCEPT ![t].got = @ + take]
                /\ buf' = buf + (k - take)
                /\ UNCHANGED orphan
       ELSE /\ buf' = buf + k
            /\ UNCHANGED << calls, orphan >>
    /\ UNCHANGED << parseVars, mockVars, pyImpl, scope, lockInit, lock, waiters,
                    open, timeouts, reconnecting, connLogs, conn, failStreak, ret >>

\* _readlines has its 27 lines: wait_for hands them on, timeouts is reset,
\* the lock is released and get_report decodes the lines.  Under the
\* task-based wait_for a caller cancelled meanwhile gets CancelledError
\* instead of the lines.
ReadDone(t) ==
    /\ calls[t].pc = "reading"
    /\ calls[t].got = NumLines
    /\ IF pyImpl = "task" /\ calls[t].cancelReq
       THEN /\ Finish(t, "unset", Raised("CancelledError"), 1)
            /\ UNCHANGED << timeouts, failStreak >>
       ELSE /\ timeouts' = 0
            /\ Finish(t, "lines", get_report(Lines(GoodReport)), 1)
            /\ failStreak' = Streak(get_report(Lines(GoodReport)))
    /\ UNCHANGED << parseVars, mockVars, pyImpl, scope, lockInit, waiters,
                    orphan, open, reconnecting, connLogs, conn, buf, owed >>

\* The 10 s of wait_for pass: the read loop is cancelled, _readlines catches
\* the CancelledError inside its while loop, prints and awaits readuntil
\* again; wait_for keeps waiting for the loop to end.
ReadTimeout(t) ==
    /\ calls[t].pc = "reading"
    /\ calls[t].got < NumLines
    /\ conn = "up"
    /\ ~calls[t].timedOut
    /\ ~(pyImpl = "task" /\ calls[t].cancelReq)
    /\ calls' = [calls EXCEPT ![t].timedOut = TRUE]
    /\ UNCHANGED << parseVars, mockVars, pyImpl, scope, lockInit, lock, waiters,
                    orphan, open, timeouts, reconnecting, connLogs, conn, buf, owed,
                    failStreak, ret >>

\* readuntil meets the end of the stream: IncompleteReadError passes through
\* _handle_communication and is caught by _write_and_read, which returns None.
ReadEOF(t) ==
    /\ calls[t].pc = "reading"
    /\ calls[t].got < NumLines
    /\ conn \in {"eof", "closed"}
    /\ IF pyImpl = "task" /\ calls[t].cancelReq
       THEN /\ Finish(t, "unset", Raised("CancelledError"), 1)
            /\ UNCHANGED failStreak
       ELSE /\ Finish(t, "none", get_report(NoneResponse), 1)
            /\ failStreak' = Streak(get_report(NoneResponse))
    /\ UNCHANGED << parseVars, mockVars, pyImpl, scope, lockInit, waiters,
                    orphan, open, timeouts, reconnecting, connLogs, conn, buf, owed >>

\* readuntil raises an OSError (connection reset, broken pipe): the except
\* branch of _handle_communication counts it, closes at max_timeouts and
\* falls off the end, so that None is returned.
ReadOSError(t) ==
    /\ calls[t].pc = "reading"
    /\ calls[t].got < NumLines
    /\ conn = "err"
    /\ timeouts < TimeoutsCap
    /\ IF pyImpl = "task" /\ calls[t].cancelReq
       THEN /\ Finish(t, "unset", Raised("CancelledError"), 1)
            /\ UNCHANGED << timeouts, open, conn, failStreak >>
       ELSE /\ timeouts' = timeouts + 1
            /\ IF timeouts + 1 = max_timeouts
               THEN /\ open' = close(open, conn).open
                    /\ conn' = close(open, conn).conn
               ELSE UNCHANGED << open, conn >>
            /\ Finish(t, "none", get_report(NoneResponse), 1)
            /\ failStreak' = Streak(get_report(NoneResponse))
    /\ UNCHANGED << parseVars, mockVars, pyImpl, scope, lockInit, waiters,
                    orphan, reconnecting, connLogs, buf, owed >>

\* The peer closes the connection: the stream reader is at end of stream
\* once the buffered lines are read; a leftover read loop ends with it.
PeerClose ==
    /\ conn = "up"
    /\ conn' = "eof"
    /\ owed' = 0
    /\ orphan' = -1
    /\ UNCHANGED << parseVars, mockVars, pyImpl, scope, lockInit, lock, waiters,
                    calls, open, timeouts, reconnecting, connLogs, buf, failStreak, ret >>

\* The connection breaks (reset by peer, broken pipe on a later write): the
\* stream reader raises the OSError on every read from then on.
PeerReset ==
    /\ conn \in {"up", "eof"}
    /\ conn' = "err"
    /\ owed' = 0
    /\ buf' = 0
    /\ orphan' = -1
    /\ UNCHANGED << parseVars, mockVars, pyImpl, scope, lockInit, lock, waiters,
                    calls, open, timeouts, reconnecting, connLogs, failStreak, ret >>

\* The caller's task is cancelled at the await it is suspended in.
\*   lock.acquire: the caller leaves the queue.
\*   connect: CancelledError leaves query, the lock is released.
\*   readuntil: _readlines catches the CancelledError and reads on.  Under
\*   the timeout-based wait_for that is all.  Under the task-based one the
\*   caller now waits for the loop to end, and a second cancellation (or one
\*   after the timeout) leaves query with the loop still running.
Cancel(t) ==
    /\ scope = "entered"
    /\ \/ /\ calls[t].pc = "waitLock"
          /\ waiters' = SelectSeq(waiters, LAMBDA w : w # t)
          /\ calls' = [calls EXCEPT ![t] = IdleCall]
          /\ ret' = Ended("get_report", "unset", Raised("CancelledError"),
                        0, calls[t])
          /\ UNCHANGED << lock, orphan >>
       \/ /\ calls[t].pc = "connecting"
          /\ Finish(t, "unset", Raised("CancelledError"), 0)
          /\ UNCHANGED << waiters, orphan >>
       \/ /\ calls[t].pc = "reading"
          /\ calls[t].got < NumLines
          /\ ~calls[t].cancelReq
          /\ pyImpl = "timeout" \/ ~calls[t].timedOut
          /\ calls' = [calls EXCEPT ![t].cancelReq = TRUE]
          /\ UNCHANGED << lock, waiters, orphan, ret >>
       \/ /\ calls[t].pc = "reading"
          /\ calls[t].got < NumLines
          /\ pyImpl = "task"
          /\ calls[t].timedOut \/ calls[t].cancelReq
          /\ Finish(t, "unset", Raised("CancelledError"), 1)
          /\ orphan' = IF conn = "up" THEN calls[t].got ELSE -1
          /\ UNCHANGED waiters
    /\ UNCHANGED << parseVars, mockVars, pyImpl, scope, lockInit, open,
                    timeouts, reconnecting, connLogs, conn, buf, owed, failStreak >>

\* The attributes of a TapDensity instance (driver.py).
DriverAttrs == {"READ_CYCLE_COUNT", "READ_CYCLE_COUNT_SP", "READ_DATE",
                "READ_DURATION", "READ_DURATION_SP", "READ_MODEL",
                "PRINT_REPORT", "PRINT_REPORT_LEFT", "PRINT_REPORT_RIGHT",
                "READ_SPEED_INT", "READ_ACTUAL_SPEED", "READ_SET_SPEED",
                "READ_SERIAL_NUMBER", "READ_FIRMWARE", "__init__",
                "__aenter__", "__aexit__", "query", "get_report", "_parse",
                "hw", "lock"}

\* command_line's reset(): "await copley.reset()" looks the attribute up on
\* the driver; there is none, AttributeError is raised and nothing is sent.
Reset(t) ==
    /\ scope = "entered"
    /\ calls[t].pc = "idle"
    /\ "reset" \notin DriverAttrs
    /\ ret' = Ended("reset", "unset", Raised("AttributeError"), 0, IdleCall)
    /\ UNCHANGED << parseVars, mockVars, pyImpl, scope, lockInit, lock, waiters,
                    calls, orphan, open, timeouts, reconnecting, connLogs, conn, buf,
                    owed, failStreak >>

\* Client.__init__ and TapDensity.__init__ for a host:port address.
TcpInit ==
    /\ pyImpl \in {"task", "timeout"}
    /\ scope = "constructed"
    /\ lockInit = FALSE
    /\ lock = 0
    /\ waiters = << >>
    /\ calls = [t \in Callers |-> IdleCall]
    /\ orphan = -1
    /\ open = FALSE
    /\ timeouts = 0
    /\ reconnecting = FALSE
    /\ connLogs = 0
    /\ conn = "none"
    /\ buf = 0
    /\ owed = 0
    /\ failStreak = 0
    /\ ret = NothingEnded

\* No driver has been constructed.
NotBuilt == [state |-> "none", hw |-> "none", open |-> FALSE, io |-> << >>,
             wrote |-> 0, out |-> NoOutcome]

ParseIdle ==
    /\ response = NoneResponse
    /\ edits = 0
    /\ parseOut = NoOutcome

MockIdle ==
    /\ address = << >>
    /\ mockHw = "none"
    /\ mockOut = NoOutcome
    /\ driver = NotBuilt

Init == TcpInit /\ ParseIdle /\ MockIdle

Next ==
    \/ Enter
    \/ Exit
    \/ \E t \in Callers : Call(t)
    \/ \E t \in Callers : Acquire(t)
    \/ \E t \in Callers : ConnectOk(t)
    \/ \E t \in Callers : ConnectFail(t)
    \/ \E k \in 1..NumLines : Deliver(k)
    \/ \E t \in Callers : ReadDone(t)
    \/ \E t \in Callers : ReadTimeout(t)
    \/ \E t \in Callers : ReadEOF(t)
    \/ \E t \in Callers : ReadOSError(t)
    \/ PeerClose
    \/ PeerReset
    \/ \E t \in Callers : Cancel(t)
    \/ \E t \in Callers : Reset(t)

Spec == Init /\ [][Next]_vars

\* ------------------------------------------------------------------------
\* The decoder on its inputs
\* ------------------------------------------------------------------------

\* The device's report reaches _parse with two neighbouring lines exchanged.
SwapLines(i) ==
    /\ ~response.none
    /\ edits < MaxEdits
    /\ i \in 1..(NumLines - 1)
    /\ response.lines[i] # response.lines[i + 1]
    /\ response' = Lines([response.lines EXCEPT ![i] = response.lines[i + 1],
                                                ![i + 1] = response.lines[i]])
    /\ edits' = edits + 1
    /\ parseOut' = NoOutcome
    /\ UNCHANGED << tcpVars, mockVars >>

\* ... with its lines in the opposite order.
ReverseLines ==
    /\ ~response.none
    /\ edits < MaxEdits
    /\ response' = Lines([i \in 1..NumLines |->
                             response.lines[NumLines + 1 - i]])
    /\ edits' = edits + 1
    /\ parseOut' = NoOutcome
    /\ UNCHANGED << tcpVars, mockVars >>

\* ... with another value text on a label line.
SetValue(i, v) ==
    /\ ~response.none
    /\ edits < MaxEdits
    /\ response.lines[i].has # {}
    /\ Len(response.lines[i].fields) >= 2
    /\ response.lines[i].fields[2] # v
    /\ response' = Lines([response.lines EXCEPT ![i].fields[2] = v])
    /\ edits' = edits + 1
    /\ parseOut' = NoOutcome
    /\ UNCHANGED << tcpVars, mockVars >>

\* ... with a label line replaced by a line carrying no label.
DropLabel(i) ==
    /\ ~response.none
    /\ edits < MaxEdits
    /\ response.lines[i].has # {}
    /\ response' = Lines([response.lines EXCEPT
                             ![i] = Line({}, << "footer", " 01/01/2023" >>)])
    /\ edits' = edits + 1
    /\ parseOut' = NoOutcome
    /\ UNCHANGED << tcpVars, mockVars >>

\* ... with a label line cut before its colon.
DropColon(i) ==
    /\ ~response.none
    /\ edits < MaxEdits
    /\ response.lines[i].has # {}
    /\ Len(response.lines[i].fields) >= 2
    /\ response' = Lines([response.lines EXCEPT
                             ![i].fields = << response.lines[i].fields[1] >>])
    /\ edits' = edits + 1
    /\ parseOut' = NoOutcome
    /\ UNCHANGED << tcpVars, mockVars >>

\* get_report hands the response to _parse.
Decode ==
    /\ parseOut = NoOutcome
    /\ parseOut' = get_report(response)
    /\ UNCHANGED << response, edits, tcpVars, mockVars >>

\* The exchange produced the device's report, or nothing.
ParseInit ==
    /\ response \in {NoneResponse, Lines(GoodReport)}
    /\ edits = 0
    /\ parseOut = NoOutcome

TcpIdle ==
    /\ pyImpl = "task"
    /\ scope = "constructed"
    /\ lockInit = FALSE
    /\ lock = 0
    /\ waiters = << >>
    /\ calls = [t \in Callers |-> IdleCall]
    /\ orphan = -1
    /\ open = FALSE
    /\ timeouts = 0
    /\ reconnecting = FALSE
    /\ connLogs = 0
    /\ conn = "none"
    /\ buf = 0
    /\ owed = 0
    /\ failStreak = 0
    /\ ret = NothingEnded

ParseNext ==
    \/ \E i \in 1..NumLines : SwapLines(i)
    \/ ReverseLines
    \/ \E i \in 1..NumLines, v \in EditValues : SetValue(i, v)
    \/ \E i \in 1..NumLines : DropLabel(i)
    \/ \E i \in 1..NumLines : DropColon(i)
    \/ Decode

ParseSpecInit == ParseInit /\ TcpIdle /\ MockIdle

ParseSpec == ParseSpecInit /\ [][ParseNext]_vars

\* The same program when no caller is ever cancelled.
NextNoCancel ==
    \/ Enter
    \/ Exit
    \/ \E t \in Callers : Call(t)
    \/ \E t \in Callers : Acquire(t)
    \/ \E t \in Callers : ConnectOk(t)
    \/ \E t \in Callers : ConnectFail(t)
    \/ \E k \in 1..NumLines : Deliver(k)
    \/ \E t \in Callers : ReadDone(t)
    \/ \E t \in Callers : ReadTimeout(t)
    \/ \E t \in Callers : ReadEOF(t)
    \/ \E t \in Callers : ReadOSError(t)
    \/ PeerClose
    \/ PeerReset
    \/ \E t \in Callers : Reset(t)

SpecNoCancel == Init /\ [][NextNoCancel]_vars

\* ------------------------------------------------------------------------
\* Construction and the offline mock: driver.py __init__, util.py
\* TcpClient.__init__ / SerialClient.__init__, mock.py
\* ------------------------------------------------------------------------

\* An address is a sequence of pieces of text; ":" is the colon.
AddrTokens == {"/dev", "COM", "NO_RESPONSE", "192.168.10.18", ":", "23"}

\* Bound on the number of pieces of an address.
MaxAddrLen == 3

Addresses == UNION {[1..n -> AddrTokens] : n \in 1..MaxAddrLen}

\* str.startswith
startswith(addr, prefix) == Len(addr) >= 1 /\ addr[1] = prefix

\* str.split(':'): the pieces between the colons.
RECURSIVE split(_, _, _)
split(addr, i, part) ==
    IF i > Len(addr) THEN << part >>
    ELSE IF addr[i] = ":" THEN << part >> \o split(addr, i + 1, << >>)
    ELSE split(addr, i + 1, Append(part, addr[i]))

\* The address is stored whatever the number of its pieces.
TcpClient_initAnyPieces(addr) == Returned("TcpClient", << >>, "")

\* TcpClient.__init__: "self.address, self.port = address.split(':')" needs
\* exactly two pieces, anything else raises ValueError.
TcpClient_init(addr) ==
    IF Len(split(addr, 1, << >>)) = 2
    THEN Returned("TcpClient", << >>, "")
    ELSE Raised("ValueError")

\* SerialClient.__init__ opens the port with serial.Serial, which raises
\* when the port cannot be opened.
SerialClient_init(addr, portOpens) ==
    IF portOpens THEN Returned("SerialClient", << >>, "")
    ELSE Raised("SerialException")

\* TapDensity.__init__: the transport is chosen by the prefix of the address.
TapDensity_init(addr, portOpens) ==
    IF startswith(addr, "/dev") \/ startswith(addr, "COM")
    THEN SerialClient_init(addr, portOpens)
    ELSE TcpClient_init(addr)

\* Python values met by mock.TapDensity.query.
PyStr(txt) == [type |-> "str", text |-> txt]
PyBool(b) == [type |-> "bool", text |-> IF b THEN "True" ELSE "False"]
PyCoroutine == [type |-> "coroutine", text |-> ""]

\* self.hw is an AsyncClientMock (a MagicMock whose __call__ is a coroutine
\* function); any attribute of it, address included, is a child mock of the
\* same class.
HwAddress == [type |-> "AsyncClientMock", text |-> ""]

\* a == b.  For a mock the configured __eq__ is itself a child mock, calling
\* it goes through AsyncClientMock.__call__ and yields a coroutine object.
PyEq(a, b) ==
    IF a.type = "AsyncClientMock" THEN PyCoroutine ELSE PyBool(a = b)

\* Truth value of a Python object in an if.
Truthy(v) ==
    CASE v.type = "bool" -> v.text = "True"
      [] v.type = "str" -> v.text # ""
      [] OTHER -> TRUE

\* TapDensity.PRINT_REPORT
PRINT_REPORT == "PR"

\* mock.TapDensity.query
mock_query(command) ==
    IF Truthy(PyEq(HwAddress, PyStr("NO_RESPONSE"))) THEN NoneResponse
    ELSE IF command = PRINT_REPORT
         THEN Lines(<< Line({}, << "hello world ", ")" >>) >>)
    ELSE NoneResponse

\* The record mock.TapDensity._parse returns for a response.
CannedRecord ==
    Returned("record",
             << IntV(12345), StrV("Fixed weight"), StrV("300"), IntV(1250),
                StrV("2.77"), StrV("170.0"), StrV("155.0"), StrV("0.016"),
                StrV("0.018"), StrV("1.097"), StrV("8.82") >>, "")

\* mock.TapDensity._parse
mock_parse(resp) == IF resp.none THEN OnFalse ELSE CannedRecord

\* mock.TapDensity(address): the real constructor runs first, then hw is
\* replaced by the mock.
MockConstruct(portOpens) ==
    /\ mockHw = "none"
    /\ mockOut' = TapDensity_init(address, portOpens)
    /\ mockHw' = IF TapDensity_init(address, portOpens).kind = "return"
                 THEN "built" ELSE "failed"
    /\ UNCHANGED << address, driver, parseVars, tcpVars >>

\* get_report on the mock driver.
MockGetReport ==
    /\ mockHw = "built"
    /\ mockOut' = mock_parse(mock_query(PRINT_REPORT))
    /\ mockHw' = "reported"
    /\ UNCHANGED << address, driver, parseVars, tcpVars >>

MockInit ==
    /\ address \in Addresses
    /\ mockHw = "none"
    /\ mockOut = NoOutcome
    /\ driver = NotBuilt

MockNext ==
    \/ \E portOpens \in BOOLEAN : MockConstruct(portOpens)
    \/ MockGetReport

MockSpecInit == MockInit /\ ParseIdle /\ TcpIdle

MockSpec == MockSpecInit /\ [][MockNext]_vars

\* ------------------------------------------------------------------------
\* Construction of the driver and the serial transport: driver.py __init__,
\* util.py Client.__init__, TcpClient.__init__, SerialClient
\* ------------------------------------------------------------------------

\* Client.__init__: the fields every client starts with.
Client_init == [open |-> FALSE, timeouts |-> 0, reconnecting |-> FALSE]

\* The client class TapDensity.__init__ instantiates for an address.
ClientClass(addr) ==
    IF startswith(addr, "/dev") \/ startswith(addr, "COM")
    THEN "SerialClient" ELSE "TcpClient"

\* What a constructor does to the outside world: SerialClient.__init__ opens
\* the port (serial.Serial), TcpClient.__init__ only stores the address.
ConstructIO(addr) ==
    IF ClientClass(addr) = "SerialClient" THEN << "serial.Serial" >>
    ELSE << >>

\* TapDensity(address) of driver.py.
Construct(portOpens) ==
    /\ driver.state = "none"
    /\ LET out == TapDensity_init(address, portOpens) IN
       driver' = [state |-> IF out.kind = "return" THEN "built" ELSE "failed",
                  hw |-> IF out.kind = "return" THEN out.shape ELSE "none",
                  open |-> Client_init.open,
                  io |-> ConstructIO(address),
                  wrote |-> 0,
                  out |-> out]
    /\ UNCHANGED << address, mockHw, mockOut, parseVars, tcpVars >>

\* Parameters of SerialClient._handle_communication.
SerialCommParams == << "self" >>

\* A call of a method with positional arguments: TypeError unless there is
\* one argument for each parameter.
PyCall(params, args) ==
    IF Len(args) = Len(params) THEN "ok" ELSE "TypeError"

\* Client._write_and_read on a SerialClient: _handle_connection sets open,
\* then "await self._handle_communication(command)" is made inside a try
\* that catches IncompleteReadError only.  The method's body is "pass":
\* nothing is written and None is returned.
Serial_write_and_read(command) ==
    [open |-> TRUE,
     wrote |-> 0,
     out |-> IF PyCall(SerialCommParams, << "self", command >>) = "ok"
             THEN get_report(NoneResponse)
             ELSE Raised(PyCall(SerialCommParams, << "self", command >>))]

\* get_report on a driver with a serial client.
SerialQuery ==
    /\ driver.state = "built"
    /\ driver.hw = "SerialClient"
    /\ driver' = [driver EXCEPT
                     !.state = "queried",
                     !.open = Serial_write_and_read(PRINT_REPORT).open,
                     !.wrote = Serial_write_and_read(PRINT_REPORT).wrote,
                     !.out = Serial_write_and_read(PRINT_REPORT).out]
    /\ UNCHANGED << address, mockHw, mockOut, parseVars, tcpVars >>

DriverNext ==
    \/ \E portOpens \in BOOLEAN : Construct(portOpens)
    \/ SerialQuery

DriverSpecInit ==
    /\ address \in Addresses
    /\ mockHw = "none"
    /\ mockOut = NoOutcome
    /\ driver = NotBuilt
    /\ ParseIdle
    /\ TcpIdle

DriverSpec == DriverSpecInit /\ [][DriverNext]_vars

\* ------------------------------------------------------------------------
\* Properties
\* ------------------------------------------------------------------------

C2_CancelReleasesLock ==
    \A t \in Callers : calls[t].cancelReq => lock # t

\* C3: once the read timeout of a call has fired the call is over: it is
\* not left in its read loop waiting for lines of the device.
C3_TimeoutEndsCall ==
    \A t \in Callers : ~(calls[t].pc = "reading" /\ calls[t].timedOut)

\* C4: when the call that just ended was the max_timeouts-th in a row without
\* a response the connection is closed, and after a call that returned a
\* report the counter is zero.
C4_ClosedAfterMaxFailures ==
    /\ (failStreak = max_timeouts /\ lock = 0 /\ ret.out = OnFalse) => ~open
    /\ (lock = 0 /\ ret.out.shape = "record") => timeouts = 0

\* C5: after __aexit__ the client is not open and the socket it had opened
\* has been closed.
C5_ClosedOnExit ==
    scope = "exited" => (~open /\ conn \in {"none", "closed"})

\* C6: a reset call completes without error and has written its command
\* exactly once.
C6_ResetWritesOnce ==
    ret.op = "reset" => (ret.out.kind = "return" /\ ret.wrote = 1)

\* Some required label occurs on no line of the response.
MissingLabel(resp) ==
    \E k \in 1..NumLabels :
        \A i \in 1..Len(resp.lines) : k \notin resp.lines[i].has

\* C7: for a received response in which a required label is absent _parse
\* raises; it does not return a value.
C7_MissingLabelFails ==
    (parseOut # NoOutcome /\ ~response.none /\ MissingLabel(response))
        => parseOut.kind = "raise"

\* The line of the response that carries label k.
LineOf(resp, k) ==
    CHOOSE i \in 1..Len(resp.lines) : k \in resp.lines[i].has

\* A well-formed report: 27 lines, each label on exactly one line of the
\* form "label: value", the value in the device's format for the field
\* (an integer text for serial number and total taps, a number for the
\* measured quantities).
WellFormed(resp) ==
    /\ ~resp.none
    /\ Len(resp.lines) = NumLines
    /\ \A i \in 1..NumLines : Cardinality(resp.lines[i].has) <= 1
    /\ \A k \in 1..NumLabels :
          /\ Cardinality({i \in 1..NumLines : k \in resp.lines[i].has}) = 1
          /\ Len(resp.lines[LineOf(resp, k)].fields) = 2
          /\ LET txt == Strip(resp.lines[LineOf(resp, k)].fields[2]) IN
             /\ k \in {1, 4} => txt \in IntTexts
             /\ k \in 5..NumLabels => txt \in FloatTexts

\* The value the record must hold for label k, read off the line that
\* carries the label wherever it stands.
ExpectedValue(resp, k) ==
    LET txt == Strip(resp.lines[LineOf(resp, k)].fields[2]) IN
    IF k \in {1, 4} THEN IntV(IntOf(txt))
    ELSE IF k = 2 THEN StrV(txt)
    ELSE IF k = 3 THEN (IF txt \in IntTexts THEN IntV(IntOf(txt)) ELSE StrV(txt))
    ELSE FloatV(txt)

\* C8: for a well-formed 27-line response, whatever the order of its lines,
\* _parse returns a record with all eleven keys, none unset, serial_number
\* and total_taps integers, each value the one of the line with its label.
C8_WellFormedDecodes ==
    (parseOut # NoOutcome /\ WellFormed(response)) =>
        /\ parseOut.kind = "return"
        /\ parseOut.shape = "record"
        /\ DOMAIN parseOut.rec = 1..NumLabels
        /\ \A k \in 1..NumLabels :
              /\ parseOut.rec[k] # Unbound
              /\ parseOut.rec[k] = ExpectedValue(response, k)
        /\ parseOut.rec[1].type = "int"
        /\ parseOut.rec[4].type = "int"

\* A well-formed report whose lines are not in the printed order was decoded.
C8_Witness ==
    /\ parseOut.shape = "record"
    /\ WellFormed(response)
    /\ response.lines # GoodReport
    /\ LineOf(response, 1) > LineOf(response, NumLabels)

\* C9: a get_report call whose query returned None returns exactly
\* {'on': False}.
C9_NoResponseGivesOnFalse ==
    (ret.op = "get_report" /\ ret.resp = "none") =>
        /\ ret.out.kind = "return"
        /\ ret.out.shape = "on_false"
        /\ ret.out.rec = << >>

\* A call ended without a response after its command had been written.
C9_Witness ==
    /\ ret.op = "get_report"
    /\ ret.resp = "none"
    /\ ret.wrote = 1
    /\ ret.out = OnFalse

\* C10: the mock driver can be constructed for 'NO_RESPONSE' and for a
\* host:port address; its get_report returns {'on': False} exactly for
\* 'NO_RESPONSE' and the canned record otherwise.
C10_MockNoResponse ==
    /\ (mockHw # "none" /\ address = << "NO_RESPONSE" >>) => mockHw # "failed"
    /\ (mockHw # "none" /\ address = << "192.168.10.18", ":", "23" >>)
          => mockHw # "failed"
    /\ mockHw = "reported" =>
          /\ (mockOut = OnFalse) <=> (address = << "NO_RESPONSE" >>)
          /\ address # << "NO_RESPONSE" >> => mockOut = CannedRecord

\* The address holds a colon.
HasColon(addr) == \E i \in 1..Len(addr) : addr[i] = ":"

\* The address starts with one of the prefixes of a serial port.
SerialPrefix(addr) == startswith(addr, "/dev") \/ startswith(addr, "COM")

C12_TransportFailuresGiveOnFalse ==
    /\ (ret.op = "get_report" /\ ret.out.kind = "raise")
          => ret.out.exc = "CancelledError"
    /\ \A t \in Callers : calls[t].timedOut => calls[t].pc = "idle"
    /\ (ret.op = "get_report" /\ ret.timedOut /\ ret.out.kind = "return")
          => ret.out = OnFalse

\* C13: a failed connect attempt leaves exactly one logged connect error
\* for the episode it belongs to (the attempts since construction or since
\* the last successful connect); a successful connect starts a new episode
\* with reconnecting cleared and open set; no other step logs the error.
C13_ConnectErrorLoggedOncePerEpisode ==
    [][/\ \A t \in Callers :
             /\ (calls[t].pc = "connecting" /\ calls'[t].pc = "idle"
                    /\ ret'.resp = "none")
                   => (connLogs' = 1 /\ reconnecting' /\ ~open')
             /\ (calls[t].pc = "connecting" /\ open')
                   => (connLogs' = 0 /\ ~reconnecting')
       /\ (\A t \in Callers : calls[t].pc # "connecting")
             => connLogs' = connLogs]_vars

\* Two connect attempts in a row have failed and one error was logged.
C13_Witness ==
    /\ conn = "none"
    /\ failStreak >= 2
    /\ reconnecting
    /\ connLogs = 1

\* C14: a step that ends an exchange without a response raises timeouts by
\* exactly one, a step that ends it with the response sets timeouts to zero.
C14_EveryFailureCounted ==
    [][\A t \in Callers :
          (InExchange(t) /\ calls'[t].pc = "idle" /\ ret'.op = "get_report")
             => /\ ret'.resp = "none" => timeouts' = timeouts + 1
                /\ ret'.resp = "lines" => timeouts' = 0]_vars

\* C15: once a call has ended on the end of the stream (the peer closed the
\* connection it had written its command to) the client is not open any
\* more, so that the next call connects afresh.
C15_PeerCloseLeadsToReconnect ==
    (/\ ret.op = "get_report"
     /\ ret.resp = "none"
     /\ ret.wrote = 1
     /\ conn = "eof"
     /\ lock = 0
     /\ \A t \in Callers : calls[t].pc = "idle") => ~open

\* C16: a query on a serial driver has marked the link open, has written
\* its command exactly once and has returned; it has not raised.
C16_SerialExchangeContract ==
    driver.state = "queried" =>
        /\ driver.open
        /\ driver.wrote = 1
        /\ driver.out.kind = "return"

AllLabelsPresent(resp) ==
    /\ ~resp.none
    /\ Len(resp.lines) = NumLines
    /\ \A i \in 1..NumLines : Cardinality(resp.lines[i].has) <= 1
    /\ \A k \in 1..NumLabels :
          /\ Cardinality({i \in 1..NumLines : k \in resp.lines[i].has}) = 1
          /\ Len(resp.lines[LineOf(resp, k)].fields) = 2

\* The trimmed text after the colon on the line of label k.
ValueText(resp, k) == Strip(resp.lines[LineOf(resp, k)].fields[2])

\* C18: for a response with all eleven labels _parse fails when the text
\* of serial number or of total taps is not an integer, and otherwise
\* returns the record, whatever the texts of the other nine values, with
\* each of the nine as its trimmed text.
C18_OnlyIntegersCanFail ==
    (parseOut # NoOutcome /\ AllLabelsPresent(response)) =>
        IF ValueText(response, 1) \notin IntTexts
              \/ ValueText(response, 4) \notin IntTexts
        THEN parseOut.shape # "record"
        ELSE /\ parseOut.kind = "return"
             /\ parseOut.shape = "record"
             /\ \A k \in (1..NumLabels) \ {1, 4} :
                   parseOut.rec[k] = StrV(ValueText(response, k))

\* C19: timeouts is never negative and never above max_timeouts.
C19_TimeoutsWithinMax ==
    /\ timeouts >= 0
    /\ timeouts <= max_timeouts

\* C20: the lines of a response that get_report decoded were all sent after
\* the command of that call was written: none of them was in the stream
\* reader before.
C20_ResponseBelongsToCommand ==
    (ret.op = "get_report" /\ ret.resp = "lines") => ~ret.stale


====
